---- MODULE Spec2Model ----
(***************************************************************************)
(* aws-ssm: fetch one secret from AWS Secrets Manager and print it.        *)
(*                                                                         *)
(* The model follows the program with the informational flags              *)
(* (ParseArgs / NewApp / App.GetSecret / FormatOutput / main).  One run of *)
(* the process is one behaviour: Init fixes the argument vector, the       *)
(* AWS_REGION environment variable and the build metadata, and every       *)
(* action is one statement group of main.                                  *)
(*                                                                         *)
(* Go indexes from 0, TLA+ from 1: Go's args[0] is args[1] here.           *)
(* Command-line tokens, messages and metadata are atomic strings; the      *)
(* secret payload is a sequence of characters so that the formatter and    *)
(* the print can be told apart from the identity.  A stream is the         *)
(* sequence of the pieces written to it.                                   *)
(***************************************************************************)
EXTENDS Integers, Sequences, FiniteSets

\* one run of main
VARIABLES args, env, build, pc, cfg, app, calls, request, resp,
          secretValue, err, output, stdout, stderr, exitCode

\* goroutines that call App.GetSecret on one shared client, as the tests do:
\* per caller its position, App, context, input, the call the client
\* received, the local (result, err) and what GetSecret returned; the
\* values the client holds, the number of calls it served and the last
\* outcome it gave
VARIABLES gpc, gapp, gctx, ginput, gcall, gresult, gret,
          store, clientCalls, clientLast

mainVars == <<args, env, build, pc, cfg, app, calls, request, resp,
              secretValue, err, output, stdout, stderr, exitCode>>

concVars == <<gpc, gapp, gctx, ginput, gcall, gresult, gret,
              store, clientCalls, clientLast>>

vars == <<mainVars, concVars>>

(***************************************************************************)
(* Bounds                                                                  *)
(***************************************************************************)
\* longest argument vector, program name included
MaxArgs == 3
\* longest secret payload, in characters
MaxLen == 2
\* goroutines calling GetSecret at the same time
NumCallers == 2

(***************************************************************************)
(* Inputs                                                                  *)
(***************************************************************************)
ProgName == "aws-ssm"

FlagTokens == {"--version", "-v", "--help", "-h"}

\* what a positional argument can be: empty, a secret id, a region, a flag
Tokens == {"", "my-secret", "eu-west-1"} \cup FlagTokens

\* os.Args: nothing at all, or the program name followed by tokens
ArgVectors ==
    {<<>>} \cup
    UNION { { <<ProgName>> \o t : t \in [1..k -> Tokens] } : k \in 0..(MaxArgs - 1) }

\* AWS_REGION: not in the environment, set to the empty string, or set
NoVar == "<unset>"
EnvValues == {NoVar, "", "us-east-1"}

\* os.Getenv gives "" for a variable that is not set
Getenv(e) == IF e = NoVar THEN "" ELSE e

\* Version, GitCommit, BuildTime, Maintainer: the defaults of the source and
\* the values the build scripts stamp with -ldflags -X
DefaultBuild ==
    [Version |-> "dev", GitCommit |-> "unknown", BuildTime |-> "unknown",
     Maintainer |-> <<"Nicolas", " ", "HYPOLITE">>]
StampedBuild ==
    [Version |-> "v1.2.0", GitCommit |-> "0a1b2c3", BuildTime |-> "2025-01-01T00:00:00Z",
     Maintainer |-> <<"Nicolas", "_", "HYPOLITE">>]
\* a build stamped by hand: a commit, no build time, no maintainer
PartialBuild ==
    [Version |-> "v0.9.0", GitCommit |-> "4d5e6f7", BuildTime |-> "unknown",
     Maintainer |-> <<>>]
Builds == {DefaultBuild, StampedBuild, PartialBuild}

\* characters of a secret payload
Alphabet == {"[", "]", "1", "a", "\n"}
Strings == UNION { [1..k -> Alphabet] : k \in 0..MaxLen }

\* what SecretsManagerClient.GetSecretValue can return: (output, error).
\* The output is a pointer that may be nil, and so is its SecretString.
NilStr == [nil |-> TRUE, val |-> <<>>]
StringPtr(s) == [nil |-> FALSE, val |-> s]
NilOut == [nil |-> TRUE, SecretString |-> NilStr]
Outputs == {NilOut} \cup
           { [nil |-> FALSE, SecretString |-> p] : p \in {NilStr} \cup { StringPtr(s) : s \in Strings } }
NilError == <<>>
ClientErrors == {<<"context deadline exceeded">>, <<"ResourceNotFoundException">>}
ClientOutcomes == [out : Outputs, err : {NilError} \cup ClientErrors]

\* context.Context values a caller can hand to GetSecret: context.TODO() in
\* main, context.Background() and context.WithTimeout(.., 30*time.Second) in
\* the tests.  deadline is in seconds, NoDeadline when the context has none.
NoDeadline == 0
ContextTODO == [name |-> "TODO", deadline |-> NoDeadline]
ContextBackground == [name |-> "Background", deadline |-> NoDeadline]
ContextTimeout30 == [name |-> "Background", deadline |-> 30]
Contexts == {ContextTODO, ContextBackground, ContextTimeout30}

\* context.WithTimeout(ctx, d): the earlier of the two deadlines
WithTimeout(ctx, d) ==
    [ctx EXCEPT !.deadline = IF ctx.deadline = NoDeadline \/ d < ctx.deadline
                             THEN d ELSE ctx.deadline]

\* config.LoadDefaultConfig: succeeds, or fails with an error of the SDK
LoadErrors == {<<"failed to load shared config">>}

(***************************************************************************)
(* Config, App                                                             *)
(***************************************************************************)
Config(secretID, region) == [SecretID |-> secretID, Region |-> region]
ZeroConfig == Config("", "")

NoClient == "no-client"
SdkClient == "secretsmanager-client"
NoApp == [Client |-> NoClient, Config |-> ZeroConfig]

(***************************************************************************)
(* ShowVersion, ShowUsage                                                  *)
(***************************************************************************)
\* strings.ReplaceAll(s, "_", " ")
ReplaceAll(s) == [i \in 1..Len(s) |-> IF s[i] = "_" THEN " " ELSE s[i]]

\* a slip: every field is printed whatever its value, the maintainer as
\* stamped
ShowVersionUnconditional(b) ==
    <<"aws-ssm version ", b.Version, "\n">>
    \o <<"Git commit: ", b.GitCommit, "\n">>
    \o <<"Built: ", b.BuildTime, "\n">>
    \o <<"Maintainer: ">> \o b.Maintainer \o <<"\n">>

\* what ShowVersion writes to standard output
ShowVersion(b) ==
    <<"aws-ssm version ", b.Version, "\n">>
    \o (IF b.GitCommit # "unknown" THEN <<"Git commit: ", b.GitCommit, "\n">> ELSE <<>>)
    \o (IF b.BuildTime # "unknown" THEN <<"Built: ", b.BuildTime, "\n">> ELSE <<>>)
    \o (IF b.Maintainer # <<>>
        THEN <<"Maintainer: ">> \o ReplaceAll(b.Maintainer) \o <<"\n">>
        ELSE <<>>)

\* what ShowUsage writes to the error stream
ShowUsage(progName) ==
    << "Usage: ", progName, " <secret-id> [region]\n",
       "       ", progName, " --version\n",
       "       ", progName, " --help\n",
       "\nArguments:\n",
       "  secret-id    AWS Secrets Manager secret ID or ARN\n",
       "  region       AWS region (optional, overrides AWS_REGION)\n",
       "\nOptions:\n",
       "  --version    Show version information\n",
       "  --help       Show this help message\n",
       "\nEnvironment variables:\n",
       "  AWS_REGION: AWS region (can be overridden by second argument)\n",
       "  AWS_ACCESS_KEY_ID: AWS access key\n",
       "  AWS_SECRET_ACCESS_KEY: AWS secret key\n",
       "  AWS_SESSION_TOKEN: Session token (for temporary roles)\n" >>

(***************************************************************************)
(* ParseArgs                                                               *)
(***************************************************************************)
ErrInsufficient == <<"insufficient arguments">>
ErrRegion ==
    <<"AWS region must be specified either via AWS_REGION environment variable or as second argument">>

\* ParseArgs returns (Config, error), or does not return at all: the two
\* flags print and call os.Exit(0) inside the parser.
Returned(c, e) == [kind |-> "return", cfg |-> c, err |-> e,
                   out |-> <<>>, errout |-> <<>>, code |-> 0]
Exited(o, eo, code) == [kind |-> "exit", cfg |-> ZeroConfig, err |-> NilError,
                        out |-> o, errout |-> eo, code |-> code]

\* a slip: the region is resolved before the flags are looked at
ParseArgsRegionFirst(a, e, b) ==
    IF Len(a) < 2 THEN Returned(ZeroConfig, ErrInsufficient)
    ELSE LET region == IF Len(a) > 2 THEN a[3] ELSE Getenv(e)
         IN  IF region = "" THEN Returned(ZeroConfig, ErrRegion)
             ELSE IF a[2] \in {"--version", "-v"} THEN Exited(ShowVersion(b), <<>>, 0)
             ELSE IF a[2] \in {"--help", "-h"} THEN Exited(<<>>, ShowUsage(a[1]), 0)
             ELSE Returned(Config(a[2], region), NilError)

\* a slip: the environment wins over the second argument
ParseArgsEnvWins(a, e, b) ==
    IF Len(a) < 2 THEN Returned(ZeroConfig, ErrInsufficient)
    ELSE IF a[2] \in {"--version", "-v"} THEN Exited(ShowVersion(b), <<>>, 0)
    ELSE IF a[2] \in {"--help", "-h"} THEN Exited(<<>>, ShowUsage(a[1]), 0)
    ELSE LET region == IF Getenv(e) = "" /\ Len(a) > 2 THEN a[3] ELSE Getenv(e)
         IN  IF region = "" THEN Returned(ZeroConfig, ErrRegion)
             ELSE Returned(Config(a[2], region), NilError)

\* a slip: the empty region is not rejected
ParseArgsNoRegionCheck(a, e, b) ==
    IF Len(a) < 2 THEN Returned(ZeroConfig, ErrInsufficient)
    ELSE IF a[2] \in {"--version", "-v"} THEN Exited(ShowVersion(b), <<>>, 0)
    ELSE IF a[2] \in {"--help", "-h"} THEN Exited(<<>>, ShowUsage(a[1]), 0)
    ELSE LET region == IF Len(a) > 2 THEN a[3] ELSE Getenv(e)
         IN  Returned(Config(a[2], region), NilError)

\* a slip: the usage error is built from args[0], which an empty vector
\* does not have
ParseArgsUsageArgs0(a, e, b) ==
    IF Len(a) < 2
    THEN IF Len(a) = 0
         THEN [kind |-> "panic", cfg |-> ZeroConfig, err |-> NilError,
               out |-> <<>>, errout |-> <<>>, code |-> 2]
         ELSE Returned(ZeroConfig, <<"usage: ", a[1], " <secret-id> [region]">>)
    ELSE IF a[2] \in {"--version", "-v"} THEN Exited(ShowVersion(b), <<>>, 0)
    ELSE IF a[2] \in {"--help", "-h"} THEN Exited(<<>>, ShowUsage(a[1]), 0)
    ELSE LET region == IF Len(a) > 2 THEN a[3] ELSE Getenv(e)
         IN  IF region = "" THEN Returned(ZeroConfig, ErrRegion)
             ELSE Returned(Config(a[2], region), NilError)

\* a slip: the last argument, not the second positional one, is the region
ParseArgsLastArgRegion(a, e, b) ==
    IF Len(a) < 2 THEN Returned(ZeroConfig, ErrInsufficient)
    ELSE IF a[2] \in {"--version", "-v"} THEN Exited(ShowVersion(b), <<>>, 0)
    ELSE IF a[2] \in {"--help", "-h"} THEN Exited(<<>>, ShowUsage(a[1]), 0)
    ELSE LET secretID == a[2]
             region == IF Len(a) > 2 THEN a[Len(a)] ELSE Getenv(e)
         IN  IF region = "" THEN Returned(ZeroConfig, ErrRegion)
             ELSE Returned(Config(secretID, region), NilError)

\* a slip: an empty region argument falls back to AWS_REGION
ParseArgsEmptyArgFallsBack(a, e, b) ==
    IF Len(a) < 2 THEN Returned(ZeroConfig, ErrInsufficient)
    ELSE IF a[2] \in {"--version", "-v"} THEN Exited(ShowVersion(b), <<>>, 0)
    ELSE IF a[2] \in {"--help", "-h"} THEN Exited(<<>>, ShowUsage(a[1]), 0)
    ELSE LET secretID == a[2]
             region == IF Len(a) > 2 /\ a[3] # "" THEN a[3] ELSE Getenv(e)
         IN  IF region = "" THEN Returned(ZeroConfig, ErrRegion)
             ELSE Returned(Config(secretID, region), NilError)

\* a slip: the flags are looked for in every position
ParseArgsFlagAnywhere(a, e, b) ==
    IF Len(a) < 2 THEN Returned(ZeroConfig, ErrInsufficient)
    ELSE IF \E i \in 2..Len(a) : a[i] \in {"--version", "-v"}
         THEN Exited(ShowVersion(b), <<>>, 0)
    ELSE IF \E i \in 2..Len(a) : a[i] \in {"--help", "-h"}
         THEN Exited(<<>>, ShowUsage(a[1]), 0)
    ELSE LET secretID == a[2]
             region == IF Len(a) > 2 THEN a[3] ELSE Getenv(e)
         IN  IF region = "" THEN Returned(ZeroConfig, ErrRegion)
             ELSE Returned(Config(secretID, region), NilError)

ParseArgs(a, e, b) ==
    IF Len(a) < 2 THEN Returned(ZeroConfig, ErrInsufficient)
    ELSE IF a[2] \in {"--version", "-v"} THEN Exited(ShowVersion(b), <<>>, 0)
    ELSE IF a[2] \in {"--help", "-h"} THEN Exited(<<>>, ShowUsage(a[1]), 0)
    ELSE LET secretID == a[2]
             region == IF Len(a) > 2 THEN a[3] ELSE Getenv(e)
         IN  IF region = "" THEN Returned(ZeroConfig, ErrRegion)
             ELSE Returned(Config(secretID, region), NilError)

(***************************************************************************)
(* NewApp                                                                  *)
(***************************************************************************)
\* le is what config.LoadDefaultConfig returned as its error
NewApp(c, le) ==
    IF le # NilError
    THEN [app |-> NoApp, err |-> <<"failed to load AWS config: ">> \o le]
    ELSE [app |-> [Client |-> SdkClient, Config |-> c], err |-> NilError]

(***************************************************************************)
(* App.GetSecret                                                           *)
(***************************************************************************)
\* a slip: the wrong Config field is sent
GetSecretValueInputRegion(a) == [SecretId |-> a.Config.Region]

GetSecretValueInput(a) == [SecretId |-> a.Config.SecretID]

ErrNoString == <<"secret does not contain a string value">>

\* the result of GetSecret on the outcome o of the client call: the value
\* and the error it returns, whether it panicked instead of returning, and
\* how many times it invoked the client.  unwrap is what errors.Unwrap gives
\* on the returned error: the cause when the error was built with %w.
GetSecretResult(v, e, p, n, a) ==
    [value |-> v, err |-> e, unwrap |-> NilError, panicked |-> p, ncalls |-> n,
     input |-> GetSecretValueInput(a)]

\* fmt.Errorf("failed to get secret value: %w", cause)
WrapFetchError(r, cause) ==
    [r EXCEPT !.err = <<"failed to get secret value: ">> \o cause, !.unwrap = cause]

\* what the client receives: app.Client.GetSecretValue(ctx, input)
ClientCallWithTimeout(ctx, input) ==
    [ctx |-> WithTimeout(ctx, 10), SecretId |-> input.SecretId]

ClientCall(ctx, input) == [ctx |-> ctx, SecretId |-> input.SecretId]

\* a slip: a failed call is tried once more
GetSecretRetry(a, o) ==
    IF o.err # NilError
    THEN WrapFetchError(GetSecretResult(<<>>, NilError, FALSE, 2, a), o.err)
    ELSE IF o.out.nil THEN GetSecretResult(<<>>, NilError, TRUE, 1, a)
    ELSE IF o.out.SecretString.nil THEN GetSecretResult(<<>>, ErrNoString, FALSE, 1, a)
    ELSE GetSecretResult(o.out.SecretString.val, NilError, FALSE, 1, a)

\* a slip: a missing string is returned as the empty value
GetSecretNilAsEmpty(a, o) ==
    IF o.err # NilError
    THEN WrapFetchError(GetSecretResult(<<>>, NilError, FALSE, 1, a), o.err)
    ELSE IF o.out.nil THEN GetSecretResult(<<>>, NilError, TRUE, 1, a)
    ELSE GetSecretResult(o.out.SecretString.val, NilError, FALSE, 1, a)

\* a slip: %v instead of %w, the message is kept and the cause is lost
GetSecretNoWrap(a, o) ==
    IF o.err # NilError
    THEN GetSecretResult(<<>>, <<"failed to get secret value: ">> \o o.err, FALSE, 1, a)
    ELSE IF o.out.nil THEN GetSecretResult(<<>>, NilError, TRUE, 1, a)
    ELSE IF o.out.SecretString.nil THEN GetSecretResult(<<>>, ErrNoString, FALSE, 1, a)
    ELSE GetSecretResult(o.out.SecretString.val, NilError, FALSE, 1, a)

GetSecret(a, o) ==
    IF o.err # NilError
    THEN WrapFetchError(GetSecretResult(<<>>, NilError, FALSE, 1, a), o.err)
    ELSE IF o.out.nil
         \* result.SecretString on a nil result: nil pointer dereference
         THEN GetSecretResult(<<>>, NilError, TRUE, 1, a)
    ELSE IF o.out.SecretString.nil
         THEN GetSecretResult(<<>>, ErrNoString, FALSE, 1, a)
    ELSE GetSecretResult(o.out.SecretString.val, NilError, FALSE, 1, a)

(***************************************************************************)
(* FormatOutput                                                            *)
(***************************************************************************)
IsSpace(c) == c = "\n"

RECURSIVE TrimLeft(_)
TrimLeft(s) == IF s # <<>> /\ IsSpace(Head(s)) THEN TrimLeft(Tail(s)) ELSE s

RECURSIVE TrimRight(_)
TrimRight(s) ==
    IF s # <<>> /\ IsSpace(s[Len(s)]) THEN TrimRight(SubSeq(s, 1, Len(s) - 1)) ELSE s

Trim(s) == TrimRight(TrimLeft(s))

IsNumber(s) == s # <<>> /\ \A i \in 1..Len(s) : s[i] = "1"

\* a JSON value over Alphabet: a number, or an array of at most one value
\* (the alphabet has no comma, quote or brace)
RECURSIVE IsJSONValue(_)
IsJSONValue(s) ==
    \/ IsNumber(s)
    \/ /\ Len(s) >= 2
       /\ s[1] = "["
       /\ s[Len(s)] = "]"
       /\ LET inner == Trim(SubSeq(s, 2, Len(s) - 1))
          IN  inner = <<>> \/ IsJSONValue(inner)

\* json.Unmarshal([]byte(s), &jsonData) returns nil
JSONValid(s) == IsJSONValue(Trim(s))

\* json.Compact: the document without its insignificant whitespace
Compact(s) == SelectSeq(s, LAMBDA c : ~IsSpace(c))

\* a slip: a JSON document is re-serialized
FormatOutputCompact(sv) == IF ~JSONValid(sv) THEN sv ELSE Compact(sv)

FormatOutput(sv) == IF ~JSONValid(sv) THEN sv ELSE sv

(***************************************************************************)
(* main                                                                    *)
(***************************************************************************)
\* exitCode while the process has not exited
Running == 0 - 1
\* a slip: a failure path that exits with status 0
ExitFailureZero == 0
\* os.Exit(1), also the status of log.Fatalf
ExitFailure == 1
\* the status of a process ended by an unrecovered panic
ExitPanic == 2
LogPrefix == "2006/01/02 15:04:05 "
PanicIndex == "panic: runtime error: index out of range [0] with length 0"
PanicNil == "panic: runtime error: invalid memory address or nil pointer dereference"

\* a slip: fmt.Println instead of fmt.Print
FmtPrintln(w, s) == w \o s \o <<"\n">>

\* fmt.Print(s) on the stream w
FmtPrint(w, s) == w \o s

\* a slip: the process exits without logging the cause
FatalfSilent(prefix, e) == <<>>

\* log.Fatalf(prefix + "%v", e): a line on the error stream, then os.Exit(1)
Fatalf(prefix, e) == <<LogPrefix, prefix>> \o e \o <<"\n">>

Init ==
    /\ args \in ArgVectors
    /\ env \in EnvValues
    /\ build \in Builds
    /\ pc = "Start"
    /\ cfg = ZeroConfig
    /\ app = NoApp
    /\ calls = 0
    /\ request = <<>>
    /\ resp = <<>>
    /\ secretValue = <<>>
    /\ err = NilError
    /\ output = <<>>
    /\ stdout = <<>>
    /\ stderr = <<>>
    /\ exitCode = Running
    /\ gpc = <<>>
    /\ gapp = <<>>
    /\ gctx = <<>>
    /\ ginput = <<>>
    /\ gcall = <<>>
    /\ gresult = <<>>
    /\ gret = <<>>
    /\ store = <<>>
    /\ clientCalls = 0
    /\ clientLast = <<>>

\* cfg, err := ParseArgs(os.Args) returns "insufficient arguments":
\* ShowUsage(os.Args[0]); os.Exit(1).  With an empty os.Args the index
\* expression os.Args[0] panics.
ParseUsageError ==
    /\ pc = "Start"
    /\ UNCHANGED concVars
    /\ LET r == ParseArgs(args, env, build)
       IN  /\ r.kind = "return"
           /\ r.err = ErrInsufficient
           /\ err' = r.err
           /\ IF Len(args) = 0
              THEN /\ pc' = "Panic"
                   /\ stderr' = stderr \o <<PanicIndex>>
                   /\ exitCode' = ExitPanic
              ELSE /\ pc' = "Fatal"
                   /\ stderr' = stderr \o ShowUsage(args[1])
                   /\ exitCode' = ExitFailure
    /\ UNCHANGED <<args, env, build, cfg, app, calls, request, resp,
                   secretValue, output, stdout>>

\* ParseArgs returns any other error: "Error: %v\n" on the error stream,
\* os.Exit(1)
ParseConfigError ==
    /\ pc = "Start"
    /\ UNCHANGED concVars
    /\ LET r == ParseArgs(args, env, build)
       IN  /\ r.kind = "return"
           /\ r.err # NilError
           /\ r.err # ErrInsufficient
           /\ err' = r.err
           /\ stderr' = stderr \o <<"Error: ">> \o r.err \o <<"\n">>
    /\ pc' = "Fatal"
    /\ exitCode' = ExitFailure
    /\ UNCHANGED <<args, env, build, cfg, app, calls, request, resp,
                   secretValue, output, stdout>>

\* ParseArgs meets a flag: it prints and calls os.Exit(0) itself
ParseFlagExit ==
    /\ pc = "Start"
    /\ UNCHANGED concVars
    /\ LET r == ParseArgs(args, env, build)
       IN  /\ r.kind = "exit"
           /\ stdout' = stdout \o r.out
           /\ stderr' = stderr \o r.errout
           /\ exitCode' = r.code
    /\ pc' = "FlagExit"
    /\ UNCHANGED <<args, env, build, cfg, app, calls, request, resp,
                   secretValue, err, output>>

\* ParseArgs returns a Config and no error
ParseOK ==
    /\ pc = "Start"
    /\ UNCHANGED concVars
    /\ LET r == ParseArgs(args, env, build)
       IN  /\ r.kind = "return"
           /\ r.err = NilError
           /\ cfg' = r.cfg
    /\ pc' = "Parsed"
    /\ UNCHANGED <<args, env, build, app, calls, request, resp,
                   secretValue, err, output, stdout, stderr, exitCode>>

\* app, err := NewApp(cfg); on error log.Fatalf
MainNewApp ==
    /\ pc = "Parsed"
    /\ UNCHANGED concVars
    /\ \E le \in {NilError} \cup LoadErrors :
         LET r == NewApp(cfg, le)
         IN  /\ err' = r.err
             /\ app' = r.app
             /\ IF r.err # NilError
                THEN /\ pc' = "Fatal"
                     /\ stderr' = stderr \o Fatalf("Failed to initialize application: ", r.err)
                     /\ exitCode' = ExitFailure
                ELSE /\ pc' = "ClientReady"
                     /\ UNCHANGED <<stderr, exitCode>>
    /\ UNCHANGED <<args, env, build, cfg, calls, request, resp,
                   secretValue, output, stdout>>

\* a slip: GetSecret clears the secret id of its App once the request is built
MainGetSecretConsumesConfig ==
    /\ pc = "ClientReady"
    /\ UNCHANGED concVars
    /\ \E o \in ClientOutcomes :
         LET r == GetSecret(app, o)
         IN  /\ resp' = o
             /\ request' = ClientCall(ContextTODO, r.input)
             /\ calls' = calls + r.ncalls
             /\ err' = r.err
             /\ secretValue' = r.value
             /\ IF r.panicked
                THEN /\ pc' = "Panic"
                     /\ stderr' = stderr \o <<PanicNil>>
                     /\ exitCode' = ExitPanic
                ELSE IF r.err # NilError
                THEN /\ pc' = "Fatal"
                     /\ stderr' = stderr \o Fatalf("Failed to get secret: ", r.err)
                     /\ exitCode' = ExitFailure
                ELSE /\ pc' = "Fetched"
                     /\ UNCHANGED <<stderr, exitCode>>
    /\ app' = [app EXCEPT !.Config = ZeroConfig]
    /\ UNCHANGED <<args, env, build, cfg, output, stdout>>

\* a slip: the error of GetSecret is logged but the run goes on
MainGetSecretIgnoresError ==
    /\ pc = "ClientReady"
    /\ UNCHANGED concVars
    /\ \E o \in ClientOutcomes :
         LET r == GetSecret(app, o)
         IN  /\ resp' = o
             /\ request' = ClientCall(ContextTODO, r.input)
             /\ calls' = calls + r.ncalls
             /\ err' = r.err
             /\ secretValue' = r.value
             /\ IF r.panicked
                THEN /\ pc' = "Panic"
                     /\ stderr' = stderr \o <<PanicNil>>
                     /\ exitCode' = ExitPanic
                ELSE /\ pc' = "Fetched"
                     /\ stderr' = IF r.err # NilError
                                  THEN stderr \o Fatalf("Failed to get secret: ", r.err)
                                  ELSE stderr
                     /\ UNCHANGED exitCode
    /\ UNCHANGED <<args, env, build, cfg, app, output, stdout>>

\* secretValue, err := app.GetSecret(context.TODO()); on error log.Fatalf
MainGetSecret ==
    /\ pc = "ClientReady"
    /\ UNCHANGED concVars
    /\ \E o \in ClientOutcomes :
         LET r == GetSecret(app, o)
         IN  /\ resp' = o
             /\ request' = ClientCall(ContextTODO, r.input)
             /\ calls' = calls + r.ncalls
             /\ err' = r.err
             /\ secretValue' = r.value
             /\ IF r.panicked
                THEN /\ pc' = "Panic"
                     /\ stderr' = stderr \o <<PanicNil>>
                     /\ exitCode' = ExitPanic
                ELSE IF r.err # NilError
                THEN /\ pc' = "Fatal"
                     /\ stderr' = stderr \o Fatalf("Failed to get secret: ", r.err)
                     /\ exitCode' = ExitFailure
                ELSE /\ pc' = "Fetched"
                     /\ UNCHANGED <<stderr, exitCode>>
    /\ UNCHANGED <<args, env, build, cfg, app, output, stdout>>

\* output := FormatOutput(secretValue)
MainFormatOutput ==
    /\ pc = "Fetched"
    /\ UNCHANGED concVars
    /\ output' = FormatOutput(secretValue)
    /\ pc' = "Formatted"
    /\ UNCHANGED <<args, env, build, cfg, app, calls, request, resp,
                   secretValue, err, stdout, stderr, exitCode>>

\* a slip: the value is also sent to the logger
MainFmtPrintLogged ==
    /\ pc = "Formatted"
    /\ UNCHANGED concVars
    /\ stdout' = FmtPrint(stdout, output)
    /\ stderr' = stderr \o <<LogPrefix>> \o output \o <<"\n">>
    /\ pc' = "Done"
    /\ exitCode' = 0
    /\ UNCHANGED <<args, env, build, cfg, app, calls, request, resp,
                   secretValue, err, output>>

\* fmt.Print(output), and main returns: exit status 0
MainFmtPrint ==
    /\ pc = "Formatted"
    /\ UNCHANGED concVars
    /\ stdout' = FmtPrint(stdout, output)
    /\ pc' = "Done"
    /\ exitCode' = 0
    /\ UNCHANGED <<args, env, build, cfg, app, calls, request, resp,
                   secretValue, err, output, stderr>>

Next ==
    \/ ParseUsageError
    \/ ParseConfigError
    \/ ParseFlagExit
    \/ ParseOK
    \/ MainNewApp
    \/ MainGetSecret
    \/ MainFormatOutput
    \/ MainFmtPrint

Spec == Init /\ [][Next]_vars

\* main runs on one goroutine that the runtime keeps executing: a statement
\* that can run does run, and the client call returns
SpecFair == Init /\ [][Next]_vars /\ WF_vars(Next)

Terminated == pc \in {"Done", "FlagExit", "Fatal", "Panic"}

TypeOK ==
    /\ args \in ArgVectors
    /\ env \in EnvValues
    /\ pc \in {"Start", "Parsed", "ClientReady", "Fetched", "Formatted",
               "Done", "FlagExit", "Fatal", "Panic"}
    /\ calls \in 0..1
    /\ exitCode \in {Running, 0, ExitFailure, ExitPanic}
    /\ Terminated <=> exitCode # Running

(***************************************************************************)
(* Concurrent callers of App.GetSecret                                     *)
(***************************************************************************)
Callers == 1..NumCallers

SecretIds == {"my-secret", "other-secret"}

\* the values the client double is set up to return
ConcValues == { s \in Strings : Len(s) = 1 /\ s[1] \in {"a", "1"} }

MockClient == "mock-client"

\* the Apps of the callers: one client, any secret id each
ConcApps == { [Client |-> MockClient, Config |-> Config(id, "us-east-1")] : id \in SecretIds }

\* the double answers a call with the value it holds for the SecretId
MockGetSecretValue(st, call) ==
    [out |-> [nil |-> FALSE, SecretString |-> StringPtr(st[call.SecretId])],
     err |-> NilError]

\* a slip: (result, err) kept in a variable shared by the callers
SharedResult(g) == clientLast

\* result, err of caller g: local variables of its GetSecret activation
LocalResult(g) == gresult[g]

InitConc ==
    /\ args = <<>>
    /\ env = NoVar
    /\ build = DefaultBuild
    /\ pc = "Idle"
    /\ cfg = ZeroConfig
    /\ app = NoApp
    /\ calls = 0
    /\ request = <<>>
    /\ resp = <<>>
    /\ secretValue = <<>>
    /\ err = NilError
    /\ output = <<>>
    /\ stdout = <<>>
    /\ stderr = <<>>
    /\ exitCode = Running
    /\ gpc = [g \in Callers |-> "start"]
    /\ gapp \in [Callers -> ConcApps]
    /\ gctx \in [Callers -> {ContextBackground, ContextTimeout30}]
    /\ ginput = [g \in Callers |-> <<>>]
    /\ gcall = [g \in Callers |-> <<>>]
    /\ gresult = [g \in Callers |-> <<>>]
    /\ gret = [g \in Callers |-> <<>>]
    /\ store \in [SecretIds -> ConcValues]
    /\ clientCalls = 0
    /\ clientLast = <<>>

\* input := &secretsmanager.GetSecretValueInput{SecretId: &app.Config.SecretID}
ConcBuildInput(g) ==
    /\ gpc[g] = "start"
    /\ ginput' = [ginput EXCEPT ![g] = GetSecretValueInput(gapp[g])]
    /\ gpc' = [gpc EXCEPT ![g] = "built"]
    /\ UNCHANGED <<gapp, gctx, gcall, gresult, gret, store, clientCalls, clientLast>>
    /\ UNCHANGED mainVars

\* result, err := app.Client.GetSecretValue(ctx, input): the client is safe
\* for concurrent use, it serves one call at a time
ConcClientCall(g) ==
    /\ gpc[g] = "built"
    /\ LET call == ClientCall(gctx[g], ginput[g])
           o == MockGetSecretValue(store, call)
       IN  /\ gcall' = [gcall EXCEPT ![g] = call]
           /\ gresult' = [gresult EXCEPT ![g] = o]
           /\ clientCalls' = clientCalls + GetSecret(gapp[g], o).ncalls
           /\ clientLast' = o
    /\ gpc' = [gpc EXCEPT ![g] = "called"]
    /\ UNCHANGED <<gapp, gctx, ginput, gret, store>>
    /\ UNCHANGED mainVars

\* the tests on err and result.SecretString, and the return
ConcReturn(g) ==
    /\ gpc[g] = "called"
    /\ LET r == GetSecret(gapp[g], LocalResult(g))
       IN  gret' = [gret EXCEPT ![g] = [value |-> r.value, err |-> r.err]]
    /\ gpc' = [gpc EXCEPT ![g] = "returned"]
    /\ UNCHANGED <<gapp, gctx, ginput, gcall, gresult, store, clientCalls, clientLast>>
    /\ UNCHANGED mainVars

NextConc ==
    \E g \in Callers :
        \/ ConcBuildInput(g)
        \/ ConcClientCall(g)
        \/ ConcReturn(g)

SpecConc == InitConc /\ [][NextConc]_vars

(***************************************************************************)
(* ParseArgs called on its own, as TestParseArgs does                      *)
(***************************************************************************)
\* longest argument vector handed to ParseArgs
MaxParseArgs == 4

\* the vectors handed to ParseArgs: as os.Args, with room for arguments
\* after the second positional one
ParseArgVectors ==
    {<<>>} \cup
    UNION { { <<ProgName>> \o t : t \in [1..k -> Tokens] } : k \in 0..(MaxParseArgs - 1) }

\* the environment is set, then ParseArgs is about to be called
InitParse ==
    /\ args \in ParseArgVectors
    /\ env \in EnvValues
    /\ build \in Builds
    /\ pc = "Start"
    /\ cfg = ZeroConfig
    /\ app = NoApp
    /\ calls = 0
    /\ request = <<>>
    /\ resp = <<>>
    /\ secretValue = <<>>
    /\ err = NilError
    /\ output = <<>>
    /\ stdout = <<>>
    /\ stderr = <<>>
    /\ exitCode = Running
    /\ gpc = <<>>
    /\ gapp = <<>>
    /\ gctx = <<>>
    /\ ginput = <<>>
    /\ gcall = <<>>
    /\ gresult = <<>>
    /\ gret = <<>>
    /\ store = <<>>
    /\ clientCalls = 0
    /\ clientLast = <<>>

\* got, err := ParseArgs(tt.args): the call returns to its caller
ParseArgsReturns ==
    /\ pc = "Start"
    /\ UNCHANGED concVars
    /\ LET r == ParseArgs(args, env, build)
       IN  /\ r.kind = "return"
           /\ cfg' = r.cfg
           /\ err' = r.err
           /\ stdout' = stdout \o r.out
           /\ stderr' = stderr \o r.errout
    /\ pc' = "Returned"
    /\ UNCHANGED <<args, env, build, app, calls, request, resp,
                   secretValue, output, exitCode>>

\* the call meets a flag: ParseArgs prints and ends the process with
\* os.Exit(0), nothing is returned
ParseArgsExits ==
    /\ pc = "Start"
    /\ UNCHANGED concVars
    /\ LET r == ParseArgs(args, env, build)
       IN  /\ r.kind = "exit"
           /\ stdout' = stdout \o r.out
           /\ stderr' = stderr \o r.errout
           /\ exitCode' = r.code
    /\ pc' = "FlagExit"
    /\ UNCHANGED <<args, env, build, cfg, app, calls, request, resp,
                   secretValue, err, output>>

NextParse ==
    \/ ParseArgsReturns
    \/ ParseArgsExits

SpecParse == InitParse /\ [][NextParse]_vars

(***************************************************************************)
(* The two earlier revisions of the program, as functions of a whole run   *)
(***************************************************************************)
\* what a run leaves behind: the two streams, the exit status, the number of
\* GetSecretValue calls made
RunOutcome(out, errout, code, n) ==
    [stdout |-> out, stderr |-> errout, exitCode |-> code, calls |-> n]

\* the reminder both earlier revisions print with a usage or parse error
EnvironmentLines ==
    << "Environment variables:\n",
       "  AWS_REGION: AWS region (can be overridden by second argument)\n",
       "  AWS_ACCESS_KEY_ID: AWS access key\n",
       "  AWS_SECRET_ACCESS_KEY: AWS secret key\n" >>

\* log.Fatal(msg): a line on the error stream, then os.Exit(1)
LogFatal(msg) == <<LogPrefix, msg, "\n">>

\* a slip: the JSON branch prints the value re-encoded
RunMonolithicCompactJSON(a, e, le, o) ==
    IF Len(a) < 2
    THEN IF Len(a) = 0
         THEN RunOutcome(<<>>, <<PanicIndex>>, ExitPanic, 0)
         ELSE RunOutcome(<<>>, <<"Usage: ", a[1], " <secret-id> [region]\n">> \o EnvironmentLines,
                         ExitFailure, 0)
    ELSE LET secretID == a[2]
             region == IF Len(a) > 2 THEN a[3] ELSE Getenv(e)
         IN  IF region = ""
             THEN RunOutcome(<<>>, LogFatal(ErrRegion[1]), ExitFailure, 0)
             ELSE IF le # NilError
             THEN RunOutcome(<<>>, Fatalf("Failed to load AWS config: ", le), ExitFailure, 0)
             ELSE IF o.err # NilError
             THEN RunOutcome(<<>>, Fatalf("Failed to get secret value: ", o.err), ExitFailure, 1)
             ELSE IF o.out.nil
             THEN RunOutcome(<<>>, <<PanicNil>>, ExitPanic, 1)
             ELSE IF o.out.SecretString.nil
             THEN RunOutcome(<<>>, LogFatal("Secret does not contain a string value"),
                             ExitFailure, 1)
             ELSE IF ~JSONValid(o.out.SecretString.val)
             THEN RunOutcome(FmtPrint(<<>>, o.out.SecretString.val), <<>>, 0, 1)
             ELSE RunOutcome(FmtPrint(<<>>, Compact(o.out.SecretString.val)), <<>>, 0, 1)

\* the monolithic main: os.Args a, AWS_REGION e, the outcome le of
\* config.LoadDefaultConfig and the outcome o of client.GetSecretValue
RunMonolithic(a, e, le, o) ==
    IF Len(a) < 2
    THEN IF Len(a) = 0
         THEN RunOutcome(<<>>, <<PanicIndex>>, ExitPanic, 0)   \* os.Args[0]
         ELSE RunOutcome(<<>>, <<"Usage: ", a[1], " <secret-id> [region]\n">> \o EnvironmentLines,
                         ExitFailure, 0)
    ELSE LET secretID == a[2]
             region == IF Len(a) > 2 THEN a[3] ELSE Getenv(e)
         IN  IF region = ""
             THEN RunOutcome(<<>>, LogFatal(ErrRegion[1]), ExitFailure, 0)
             ELSE IF le # NilError
             THEN RunOutcome(<<>>, Fatalf("Failed to load AWS config: ", le), ExitFailure, 0)
             ELSE IF o.err # NilError
             THEN RunOutcome(<<>>, Fatalf("Failed to get secret value: ", o.err), ExitFailure, 1)
             ELSE IF o.out.nil
             THEN RunOutcome(<<>>, <<PanicNil>>, ExitPanic, 1)   \* result.SecretString
             ELSE IF o.out.SecretString.nil
             THEN RunOutcome(<<>>, LogFatal("Secret does not contain a string value"),
                             ExitFailure, 1)
             ELSE IF ~JSONValid(o.out.SecretString.val)
             THEN RunOutcome(FmtPrint(<<>>, o.out.SecretString.val), <<>>, 0, 1)
             ELSE RunOutcome(FmtPrint(<<>>, o.out.SecretString.val), <<>>, 0, 1)

\* ParseArgs of the refactored revision: no flags, and the usage error is
\* built from args[0]
ParseArgsRefactored(a, e) ==
    IF Len(a) < 2
    THEN IF Len(a) = 0
         THEN [kind |-> "panic", cfg |-> ZeroConfig, err |-> NilError,
               out |-> <<>>, errout |-> <<>>, code |-> ExitPanic]
         ELSE Returned(ZeroConfig, <<"usage: ", a[1], " <secret-id> [region]">>)
    ELSE LET secretID == a[2]
             region == IF Len(a) > 2 THEN a[3] ELSE Getenv(e)
         IN  IF region = "" THEN Returned(ZeroConfig, ErrRegion)
             ELSE Returned(Config(secretID, region), NilError)

\* main of the refactored revision; its NewApp, GetSecret and FormatOutput
\* are the ones of the flag revision, word for word
RunRefactored(a, e, le, o) ==
    LET p == ParseArgsRefactored(a, e)
    IN  IF p.kind = "panic"
        THEN RunOutcome(<<>>, <<PanicIndex>>, ExitPanic, 0)
        ELSE IF p.err # NilError
        THEN RunOutcome(<<>>, <<"Error: ">> \o p.err \o <<"\n">> \o EnvironmentLines,
                        ExitFailure, 0)
        ELSE LET n == NewApp(p.cfg, le)
             IN  IF n.err # NilError
                 THEN RunOutcome(<<>>, Fatalf("Failed to initialize application: ", n.err),
                                 ExitFailure, 0)
                 ELSE LET g == GetSecret(n.app, o)
                      IN  IF g.panicked
                          THEN RunOutcome(<<>>, <<PanicNil>>, ExitPanic, g.ncalls)
                          ELSE IF g.err # NilError
                          THEN RunOutcome(<<>>, Fatalf("Failed to get secret: ", g.err),
                                          ExitFailure, g.ncalls)
                          ELSE RunOutcome(FmtPrint(<<>>, FormatOutput(g.value)), <<>>,
                                          0, g.ncalls)

(***************************************************************************)
(* Properties                                                              *)
(***************************************************************************)
\* the client call has returned a response with a string payload and no error
FetchedValue ==
    /\ calls >= 1
    /\ resp.err = NilError
    /\ ~resp.out.nil
    /\ ~resp.out.SecretString.nil

\* the client call has returned an error, or a response without a string
FetchFailed ==
    /\ calls >= 1
    /\ \/ resp.err # NilError
       \/ ~resp.out.nil /\ resp.out.SecretString.nil

\* C1: when parsing succeeds and the client returns a response whose
\* SecretString is V, nothing is written to standard output before the
\* print, and the run ends with exactly V on standard output (no newline
\* added) and exit status 0.
C1_SuccessPath ==
    FetchedValue =>
        /\ pc \in {"Fetched", "Formatted", "Done"}
        /\ secretValue = resp.out.SecretString.val
        /\ pc # "Done" => stdout = <<>> /\ exitCode = Running
        /\ pc = "Done" => stdout = resp.out.SecretString.val /\ exitCode = 0

\* a run that printed a two-character secret ending in a newline
C1_Witness ==
    /\ pc = "Done"
    /\ FetchedValue
    /\ Len(stdout) = 2
    /\ stdout[2] = "\n"
    /\ exitCode = 0

\* either the full secret value was printed and the status is 0, or nothing
\* was printed and the status is not 0
FullOrNothing ==
    \/ FetchedValue /\ stdout = resp.out.SecretString.val /\ exitCode = 0
    \/ stdout = <<>> /\ exitCode # 0

\* C2 as stated: every terminated run printed the full secret and exited 0,
\* or printed nothing and exited non-zero.
C2_Original == Terminated => FullOrNothing

\* C2 amended: every terminated run whose first positional token is not an
\* informational flag printed the full secret and exited 0, or printed
\* nothing and exited non-zero.
C2_NoPartialSuccess == (Terminated /\ pc # "FlagExit") => FullOrNothing

\* a run that failed in the fetch with nothing printed
C2_Witness ==
    /\ pc = "Fatal"
    /\ calls = 1
    /\ stdout = <<>>
    /\ exitCode = ExitFailure

\* C3: when the client returns an error, or a response whose SecretString
\* is nil, GetSecret returns an error and the run ends with a non-zero
\* status and nothing on standard output.
C3_FetchFailure ==
    FetchFailed =>
        /\ err # NilError
        /\ secretValue = <<>>
        /\ pc = "Fatal"
        /\ exitCode \notin {Running, 0}
        /\ stdout = <<>>

\* the client answered without error and without a string payload
C3_Witness ==
    /\ calls = 1
    /\ resp.err = NilError
    /\ ~resp.out.nil
    /\ resp.out.SecretString.nil
    /\ pc = "Fatal"

\* C4 as stated: when the remote fetch is attempted, Config.SecretID and
\* Config.Region are both non-empty.
C4_ConfigNonEmptyAtFetch ==
    (pc = "ClientReady" \/ calls >= 1) =>
        /\ app.Config.SecretID # ""
        /\ app.Config.Region # ""

\* the region is given by the second positional argument
RegionFromArg == Len(args) >= 3 /\ args[3] # ""
\* the region is given by AWS_REGION alone
RegionFromEnv == Len(args) = 2 /\ Getenv(env) # ""

\* what C5 says of a resolved region: the parse succeeded with the secret id
\* and that region
RegionResolved ==
    /\ RegionFromArg =>
         /\ ParseArgs(args, env, build) = Returned(Config(args[2], args[3]), NilError)
         /\ pc # "Start" => cfg = Config(args[2], args[3])
    /\ RegionFromEnv =>
         /\ ParseArgs(args, env, build) = Returned(Config(args[2], Getenv(env)), NilError)
         /\ pc # "Start" => cfg = Config(args[2], Getenv(env))

\* C5 as stated: for every secret id and every non-empty region, ParseArgs
\* succeeds with that id and that region, from the argument or from
\* AWS_REGION, the argument winning.
C5_Original == RegionResolved

\* C5 amended: the same for every first positional token that is not one of
\* --version, -v, --help, -h.
C5_RegionResolution ==
    (Len(args) >= 2 /\ args[2] \notin FlagTokens) => RegionResolved

\* both sources present and different: the argument is the one stored
C5_Witness ==
    /\ pc = "Parsed"
    /\ Len(args) = 3
    /\ env = "us-east-1"
    /\ cfg = Config("my-secret", "eu-west-1")

\* C6: for an argument vector of length 0 or 1, under any environment,
\* ParseArgs returns the usage error and the zero Config, and the run ends
\* without a fetch.
C6_TooFewArguments ==
    Len(args) < 2 =>
        /\ ParseArgs(args, env, build) = Returned(ZeroConfig, ErrInsufficient)
        /\ pc # "Start" =>
             /\ err = ErrInsufficient
             /\ cfg = ZeroConfig
             /\ pc \in {"Fatal", "Panic"}
             /\ calls = 0

\* the parser has rejected an empty argument vector with a region in the
\* environment
C6_Witness ==
    /\ Len(args) = 0
    /\ env = "us-east-1"
    /\ pc # "Start"
    /\ err = ErrInsufficient

\* no second positional argument, AWS_REGION unset or empty
NoRegionSource == Len(args) <= 2 /\ Getenv(env) = ""

\* the parse failed with the region-must-be-specified error
RegionError ==
    /\ ParseArgs(args, env, build) = Returned(ZeroConfig, ErrRegion)
    /\ pc # "Start" => pc = "Fatal" /\ err = ErrRegion /\ calls = 0

\* C7 as stated: every argument vector with neither region source fails
\* with the region-must-be-specified error.
C7_Original == NoRegionSource => RegionError

\* C7 amended: every argument vector that has a first positional token
\* which is not an informational flag, and neither region source, fails
\* with the region-must-be-specified error.
C7_NoRegion ==
    (NoRegionSource /\ Len(args) = 2 /\ args[2] \notin FlagTokens) => RegionError

\* a secret id alone with AWS_REGION set to the empty string
C7_Witness ==
    /\ args = <<ProgName, "my-secret">>
    /\ env = ""
    /\ pc = "Fatal"
    /\ err = ErrRegion

\* C8: when the first positional token is --version, -v, --help or -h, the
\* run prints the version to standard output or the usage to the error
\* stream and exits 0, with no client constructed and no remote call,
\* whatever the environment and the arguments that follow.
C8_FlagShortCircuit ==
    (Len(args) >= 2 /\ args[2] \in FlagTokens /\ pc # "Start") =>
        /\ pc = "FlagExit"
        /\ exitCode = 0
        /\ app = NoApp
        /\ calls = 0
        /\ args[2] \in {"--version", "-v"} =>
             /\ stdout = ShowVersion(build)
             /\ stdout[1] = "aws-ssm version "
             /\ stdout[2] = build.Version
             /\ stderr = <<>>
        /\ args[2] \in {"--help", "-h"} =>
             /\ stdout = <<>>
             /\ stderr = ShowUsage(args[1])
             /\ stderr[1] = "Usage: "

\* -v with no region configured and a further argument
C8_Witness ==
    /\ Len(args) = 3
    /\ args[2] = "-v"
    /\ args[3] = ""
    /\ env = NoVar
    /\ pc = "FlagExit"

\* C9: GetSecretValue is invoked at most once in a run: exactly once when
\* parsing and client construction succeeded and the fetch step has run,
\* not at all before that nor in a run ended by a usage error, a
\* configuration error, a client-construction error or a flag.
C9_OneRemoteCall ==
    /\ calls \in {0, 1}
    /\ pc \in {"Start", "Parsed", "ClientReady", "FlagExit"} => calls = 0
    /\ pc \in {"Fetched", "Formatted", "Done"} => calls = 1
    /\ pc \in {"Fatal", "Panic"} => (calls = 1 <=> app.Client # NoClient)

\* a run ended by a failed call
C9_Witness ==
    /\ pc = "Fatal"
    /\ calls = 1
    /\ resp.err = <<"context deadline exceeded">>

\* C10: FormatOutput returns its argument unchanged, whether or not it
\* parses as JSON, and applying it again changes nothing.
C10_FormatIdentity ==
    pc \in {"Formatted", "Done"} =>
        /\ output = secretValue
        /\ FormatOutput(output) = output

\* a JSON document with insignificant whitespace has been formatted
C10_Witness ==
    /\ pc = "Formatted"
    /\ secretValue = <<"1", "\n">>
    /\ JSONValid(secretValue)

\* the piece x was written to the stream w
Contains(w, x) == \E i \in 1..Len(w) : w[i] = x

\* the pieces of e were written to the stream w, in order and adjacent
ContainsSeq(w, e) ==
    \E i \in 0..(Len(w) - Len(e)) : SubSeq(w, i + 1, i + Len(e)) = e

\* C11 as stated: when the client call succeeds but SecretString is nil or
\* empty, GetSecret returns an error, and that error does not carry the
\* 'failed to get secret value' wrapping of a transport failure.
C11_MissingOrEmptyIsError ==
    (/\ calls >= 1
     /\ resp.err = NilError
     /\ ~resp.out.nil
     /\ resp.out.SecretString.nil \/ resp.out.SecretString.val = <<>>) =>
        /\ err # NilError
        /\ err[1] # "failed to get secret value: "
        /\ pc = "Fatal"

\* ParseArgs accepted the argument vector
Accepted ==
    LET r == ParseArgs(args, env, build) IN r.kind = "return" /\ r.err = NilError

\* C12: for every accepted argument vector Config.SecretID is the first
\* positional argument as given, and the SecretId of the GetSecretValue
\* request is Config.SecretID.
C12_SecretIdVerbatim ==
    Accepted =>
        /\ ParseArgs(args, env, build).cfg.SecretID = args[2]
        /\ pc # "Start" => cfg.SecretID = args[2]
        /\ app.Client # NoClient => app.Config = cfg
        /\ calls >= 1 => request.SecretId = cfg.SecretID /\ request.SecretId = args[2]

\* the request went out with the secret id of the command line, the region
\* coming from the environment
C12_Witness ==
    /\ calls = 1
    /\ args = <<ProgName, "my-secret">>
    /\ request.SecretId = "my-secret"
    /\ cfg.Region = "us-east-1"

\* C13: a run that ends in a usage, configuration, client-construction or
\* fetch error has a non-zero exit status, nothing on standard output and
\* a message on the error stream (the error text for the last three);
\* status 0 occurs only after a successful fetch-and-print or a flag.
C13_ExitStatusClasses ==
    /\ pc \in {"Fatal", "Panic"} =>
         /\ exitCode \notin {Running, 0}
         /\ stdout = <<>>
         /\ stderr # <<>>
         /\ (pc = "Fatal" /\ err # ErrInsufficient) => ContainsSeq(stderr, err)
         /\ (pc = "Fatal" /\ err = ErrInsufficient) => Contains(stderr, "Usage: ")
    /\ exitCode = 0 =>
         /\ pc \in {"Done", "FlagExit"}
         /\ pc = "Done" => FetchedValue /\ stdout = resp.out.SecretString.val

\* the run ended in a client-construction error
C13_Witness ==
    /\ pc = "Fatal"
    /\ cfg.Region # ""
    /\ app.Client = NoClient
    /\ exitCode = ExitFailure

\* the reminder of the environment inputs is on the error stream
EnvReminder(w) ==
    /\ Contains(w, "  AWS_REGION: AWS region (can be overridden by second argument)\n")
    /\ Contains(w, "  AWS_ACCESS_KEY_ID: AWS access key\n")
    /\ Contains(w, "  AWS_SECRET_ACCESS_KEY: AWS secret key\n")

\* C14 as stated: on every parser failure (too few arguments, unresolved
\* region) the error stream gets the reminder of the environment inputs,
\* standard output gets nothing, no call is made and the status is
\* non-zero; for too few arguments the expected form is named.
C14_ParserFailureReport ==
    (pc # "Start" /\ err \in {ErrInsufficient, ErrRegion}) =>
        /\ EnvReminder(stderr)
        /\ stdout = <<>>
        /\ calls = 0
        /\ exitCode \notin {Running, 0}
        /\ err = ErrInsufficient => Contains(stderr, " <secret-id> [region]\n")
        /\ err = ErrRegion => ContainsSeq(stderr, err)

\* the run was ended by --version or -v
VersionRun == pc = "FlagExit" /\ args[2] \in {"--version", "-v"}

\* C16 as stated: --version and -v print the version string, the commit id,
\* the build timestamp and the maintainer name, and exit 0, for every value
\* of the build metadata.
C16_Original ==
    VersionRun =>
        /\ exitCode = 0
        /\ Contains(stdout, build.Version)
        /\ Contains(stdout, build.GitCommit)
        /\ Contains(stdout, build.BuildTime)
        /\ Contains(stdout, "Maintainer: ")

\* C16 amended: --version and -v print the version string, the commit id
\* unless it is "unknown", the build timestamp unless it is "unknown", and
\* the maintainer name with its underscores shown as spaces unless it is
\* empty, and exit 0, for every value of the build metadata.
C16_VersionDisplay ==
    VersionRun =>
        /\ exitCode = 0
        /\ stderr = <<>>
        /\ SubSeq(stdout, 1, 3) = <<"aws-ssm version ", build.Version, "\n">>
        /\ Contains(stdout, "Git commit: ") <=> build.GitCommit # "unknown"
        /\ build.GitCommit # "unknown" =>
             ContainsSeq(stdout, <<"Git commit: ", build.GitCommit, "\n">>)
        /\ Contains(stdout, "Built: ") <=> build.BuildTime # "unknown"
        /\ build.BuildTime # "unknown" =>
             ContainsSeq(stdout, <<"Built: ", build.BuildTime, "\n">>)
        /\ Contains(stdout, "Maintainer: ") <=> build.Maintainer # <<>>
        /\ build.Maintainer # <<>> =>
             LET n == Len(build.Maintainer)
                 shown == SubSeq(stdout, Len(stdout) - n, Len(stdout) - 1)
             IN  /\ stdout[Len(stdout) - n - 1] = "Maintainer: "
                 /\ stdout[Len(stdout)] = "\n"
                 /\ \A i \in 1..n :
                      shown[i] = IF build.Maintainer[i] = "_" THEN " " ELSE build.Maintainer[i]

\* --version on a stamped build whose maintainer has an underscore
C16_Witness ==
    /\ VersionRun
    /\ args[2] = "--version"
    /\ build = StampedBuild

\* C17: in a run where the client returned a secret value, the error stream
\* stays empty and the exit status is fixed by the position in main alone
\* (0 once printed), so both are the same whatever the value is, and the
\* value reaches standard output only.
C17_SecretOnlyOnStdout ==
    FetchedValue =>
        /\ stderr = <<>>
        /\ exitCode = IF pc = "Done" THEN 0 ELSE Running
        /\ stdout \in {<<>>, resp.out.SecretString.val}

\* a secret that is not empty has been printed
C17_Witness ==
    /\ pc = "Done"
    /\ FetchedValue
    /\ resp.out.SecretString.val # <<>>
    /\ stderr = <<>>

\* the steps of main: the linear order, and the exits
LinearSteps ==
    { <<"Start", "Parsed">>, <<"Parsed", "ClientReady">>, <<"ClientReady", "Fetched">>,
      <<"Fetched", "Formatted">>, <<"Formatted", "Done">> }
ExitSteps ==
    { <<"Start", "FlagExit">>, <<"Start", "Fatal">>, <<"Start", "Panic">>,
      <<"Parsed", "Fatal">>, <<"ClientReady", "Fatal">>, <<"ClientReady", "Panic">> }

\* C18: every step of a run moves one place forward in Start, Parsed,
\* ClientReady, Fetched, Formatted, Done or leaves through an exit; the
\* client is constructed only from Parsed, the call made only from
\* ClientReady with a client, Fetched entered only without an error,
\* standard output written only by the final print or by the flag exit,
\* and no step follows Done, Fatal, the flag exit or a panic.
C18_OrchestratorOrder ==
    [][ /\ <<pc, pc'>> \in LinearSteps \cup ExitSteps
        /\ ~Terminated
        /\ app' # app => pc = "Parsed" /\ cfg.Region # ""
        /\ calls' # calls => pc = "ClientReady" /\ app.Client # NoClient
        /\ pc' = "Fetched" => err' = NilError
        /\ stdout' # stdout =>
             \/ pc = "Formatted" /\ FetchedValue
             \/ pc' = "FlagExit" ]_vars

\* a run that went through every step
C18_Witness ==
    /\ pc = "Done"
    /\ app.Client = SdkClient
    /\ calls = 1
    /\ err = NilError

\* C19: when the client call fails with error E, GetSecret returns the
\* empty string and an error whose message is 'failed to get secret
\* value: ' followed by E's message and which unwraps to E.
C19_TransportErrorWrapped ==
    (calls >= 1 /\ resp.err # NilError) =>
        LET r == GetSecret(app, resp)
        IN  /\ r.value = <<>>
            /\ r.err = <<"failed to get secret value: ">> \o resp.err
            /\ r.unwrap = resp.err
            /\ ~r.panicked
            /\ err = r.err
            /\ secretValue = <<>>

\* the call failed with context.DeadlineExceeded and a nil output
C19_Witness ==
    /\ calls = 1
    /\ resp.out.nil
    /\ err = <<"failed to get secret value: ", "context deadline exceeded">>

\* the callers that have made their client call
HaveCalled == { g \in Callers : gpc[g] \in {"called", "returned"} }

\* C15: with N callers on one client that is safe for concurrent use, under
\* every interleaving a caller that has returned got no error and exactly
\* the value the client holds for its own secret id, and the client has
\* served one call per caller that has called: N when all have returned.
C15_NoCrossTalk ==
    /\ \A g \in Callers :
         gpc[g] = "returned" =>
             /\ gret[g].err = NilError
             /\ gret[g].value = store[gapp[g].Config.SecretID]
    /\ clientCalls = Cardinality(HaveCalled)
    /\ (\A g \in Callers : gpc[g] = "returned") => clientCalls = NumCallers

\* all callers have returned, two of them asked for different secrets
\* that hold different values
C15_Witness ==
    /\ \A g \in Callers : gpc[g] = "returned"
    /\ gapp[1].Config.SecretID # gapp[2].Config.SecretID
    /\ store["my-secret"] # store["other-secret"]
    /\ gret[1].value # gret[2].value

\* C20: the context the client receives is the one the caller handed to
\* GetSecret, deadline included, and GetSecret makes one call per
\* activation: no retry, no deadline or timeout of its own.
C20_ContextPassThrough ==
    /\ \A g \in HaveCalled :
         /\ gcall[g].ctx = gctx[g]
         /\ gcall[g].SecretId = gapp[g].Config.SecretID
    /\ clientCalls = Cardinality(HaveCalled)

\* one caller's 30-second context and another's plain context have both
\* reached the client
C20_Witness ==
    /\ HaveCalled = Callers
    /\ gctx[1] = ContextTimeout30
    /\ gcall[1].ctx.deadline = 30
    /\ gctx[2] = ContextBackground
    /\ gcall[2].ctx.deadline = NoDeadline

\* C21: nothing is mutable after construction: once ParseArgs has produced
\* the Config no later step changes it, once NewApp has built the App no
\* later step (GetSecret on its success and on its error return, the
\* formatting, the printing) changes its Client or its Config, the App holds
\* the Config it was built from, and the build metadata is never written.
C21_NoMutableState ==
    [][ /\ build' = build
        /\ pc # "Start" => cfg' = cfg
        /\ pc \notin {"Start", "Parsed"} => app' = app
        /\ pc' \notin {"Start", "Parsed", "Fatal", "FlagExit", "Panic"} =>
             app'.Config = cfg' /\ app'.Client = SdkClient ]_vars

\* GetSecret has returned an error to main and the App is still the one
\* NewApp built from the Config
C21_Witness ==
    /\ pc = "Fatal"
    /\ calls = 1
    /\ FetchFailed
    /\ app = [Client |-> SdkClient, Config |-> cfg]
    /\ cfg # ZeroConfig

\* the first positional argument is none of the informational flags
FirstIsFlag == Len(args) >= 2 /\ args[2] \in FlagTokens

\* C24: a second positional argument always replaces the environment region,
\* even when it is the empty string: for [prog, id, ""] the parser does not
\* fall back to AWS_REGION, whatever its value, and fails with the
\* region-must-be-specified error; the run ends Fatal without a call.
C24_EmptyArgReplacesEnv ==
    (Len(args) >= 3 /\ args[3] = "" /\ ~FirstIsFlag) =>
        /\ ParseArgs(args, env, build) = Returned(ZeroConfig, ErrRegion)
        /\ pc # "Start" =>
             /\ pc = "Fatal"
             /\ err = ErrRegion
             /\ cfg = ZeroConfig
             /\ calls = 0
             /\ exitCode = ExitFailure

\* [prog, my-secret, ""] with AWS_REGION set has failed on the region
C24_Witness ==
    /\ args = <<ProgName, "my-secret", "">>
    /\ env = "us-east-1"
    /\ pc = "Fatal"
    /\ err = ErrRegion

\* C25 as stated: for every pair (output, error) the client can return,
\* a nil output with a nil error included, GetSecret returns normally with
\* (value, nil) where value is the SecretString of the response, or with
\* ("", error); it never crashes and never returns a non-empty value
\* together with an error.
C25_GetSecretTotal ==
    calls >= 1 =>
        LET r == GetSecret(app, resp)
        IN  /\ ~r.panicked
            /\ pc # "Panic"
            /\ \/ /\ r.err = NilError
                  /\ ~resp.out.nil
                  /\ ~resp.out.SecretString.nil
                  /\ r.value = resp.out.SecretString.val
                  /\ secretValue = r.value
               \/ /\ r.err # NilError
                  /\ r.value = <<>>
                  /\ secretValue = <<>>

\* C26: the flags are recognized only as the first positional token and
\* before the region is resolved: a flag string in second position is taken
\* verbatim as the region, the parse succeeds and the run goes on to build
\* the client and fetch; a flag in first position ends the run with exit 0
\* even when no region is available.
C26_FlagOnlyFirst ==
    /\ (Len(args) >= 3 /\ args[3] \in FlagTokens /\ ~FirstIsFlag) =>
         /\ ParseArgs(args, env, build) = Returned(Config(args[2], args[3]), NilError)
         /\ pc # "Start" =>
              /\ cfg = Config(args[2], args[3])
              /\ pc # "FlagExit"
              /\ stdout = IF pc = "Done" THEN output ELSE <<>>
              /\ pc \in {"Fetched", "Formatted", "Done"} => calls = 1
              /\ calls = 1 => request.SecretId = args[2]
    /\ (FirstIsFlag /\ NoRegionSource) =>
         /\ ParseArgs(args, env, build).kind = "exit"
         /\ ParseArgs(args, env, build).code = 0
         /\ pc # "Start" =>
              /\ pc = "FlagExit"
              /\ exitCode = 0
              /\ err = NilError
              /\ calls = 0

\* [prog, my-secret, --version] has fetched with the region "--version",
\* and nothing of the version display was printed
C26_Witness ==
    /\ args = <<ProgName, "my-secret", "--version">>
    /\ cfg.Region = "--version"
    /\ calls = 1
    /\ pc = "Done"

\* a flag in first position with no region anywhere has exited 0
C26_WitnessFlagFirst ==
    /\ FirstIsFlag
    /\ NoRegionSource
    /\ pc = "FlagExit"

\* what the claim lets the result of ParseArgs depend on: the first two
\* positional arguments (the program name replaced, the arguments after the
\* second positional one dropped)
Essential(a) ==
    IF Len(a) = 0 THEN a
    ELSE <<"renamed">> \o SubSeq(a, 2, IF Len(a) > 3 THEN 3 ELSE Len(a))

\* C22: on an input whose first positional argument is no flag, the call of
\* ParseArgs changes neither the argument vector nor the environment, writes
\* to no stream and returns instead of ending the process; when it returns
\* an error the Config is the zero value; and the result is the one ParseArgs
\* gives on the first two positional arguments alone, for any build and any
\* environment with the same AWS_REGION value.
C22_ParseArgsPure ==
    [][ /\ args' = args
        /\ env' = env
        /\ ~FirstIsFlag =>
             /\ pc' = "Returned"
             /\ stdout' = stdout
             /\ stderr' = stderr
             /\ exitCode' = Running
             /\ err' # NilError => cfg' = ZeroConfig
             /\ \A b \in Builds : \A e \in EnvValues :
                  Getenv(e) = Getenv(env) =>
                      LET r == ParseArgs(Essential(args), e, b)
                      IN  /\ r.kind = "return"
                          /\ r.cfg = cfg'
                          /\ r.err = err' ]_vars

\* ParseArgs has returned a Config on a vector with an argument after the
\* second positional one, different from the region
C22_Witness ==
    /\ pc = "Returned"
    /\ Len(args) = 4
    /\ args[4] # args[3]
    /\ err = NilError
    /\ cfg = Config(args[2], args[3])

\* the client call has ended in a transport error
TransportError == calls >= 1 /\ resp.err # NilError

\* C23 as stated: every invocation eventually reaches one of the terminal
\* states Done, informational-flag exit or Fatal, given that the client call
\* returns; and a call that ends in a transport error leads to Fatal.
C23_Termination ==
    /\ <>(pc \in {"Done", "FlagExit", "Fatal"})
    /\ [](TransportError => pc = "Fatal")

\* what holds of every invocation: it ends, by one of the three exits of the
\* claim or by a runtime panic; no step is taken after it has ended; a
\* transport error leads to Fatal after the one call
C23_EndsSomehow ==
    /\ <>Terminated
    /\ [][~Terminated]_vars
    /\ [](TransportError => pc = "Fatal" /\ calls = 1)

\* a run that has ended in the runtime panic of GetSecret
C23_PanicEnd ==
    /\ pc = "Panic"
    /\ calls = 1
    /\ resp.out.nil
    /\ resp.err = NilError

\* what the claim compares: standard output, zero or non-zero exit status,
\* number of remote calls
Observed(r) == <<r.stdout, r.exitCode = 0, r.calls>>

\* the outcomes of client construction that agree with this run: the one
\* that was drawn, or any when the run ended before NewApp
LoadOutcomesSeen ==
    IF app.Client = SdkClient THEN {NilError}
    ELSE IF cfg # ZeroConfig
         THEN { le \in LoadErrors : NewApp(cfg, le).err = err }
         ELSE {NilError} \cup LoadErrors

\* the outcomes of the client call that agree with this run: the one that
\* was drawn, or any when the run ended before the call
ClientOutcomesSeen == IF calls >= 1 THEN {resp} ELSE ClientOutcomes

\* C27: on every input whose first positional token is not an informational
\* flag, a finished run of the flag revision has the standard output, the
\* zero / non-zero exit status and the number of remote calls that the
\* monolithic main and the refactored program have on the same arguments,
\* environment, client construction outcome and client outcome.
C27_RevisionsEquivalent ==
    (Terminated /\ ~FirstIsFlag) =>
        \A le \in LoadOutcomesSeen : \A o \in ClientOutcomesSeen :
            /\ Observed(RunMonolithic(args, env, le, o))
                 = <<stdout, exitCode = 0, calls>>
            /\ Observed(RunRefactored(args, env, le, o))
                 = <<stdout, exitCode = 0, calls>>

\* a JSON value with trailing white space has been printed by the flag
\* revision, and the two earlier revisions print the same
C27_Witness ==
    /\ pc = "Done"
    /\ ~FirstIsFlag
    /\ JSONValid(secretValue)
    /\ Compact(secretValue) # secretValue
    /\ RunMonolithic(args, env, NilError, resp).stdout = stdout
    /\ RunRefactored(args, env, NilError, resp).stdout = stdout

\* the three revisions have ended a run without a call and with a non-zero
\* status on a region that no source gives
C27_WitnessFailure ==
    /\ pc = "Fatal"
    /\ err = ErrRegion
    /\ \A o \in ClientOutcomes :
         /\ RunMonolithic(args, env, NilError, o).exitCode = ExitFailure
         /\ RunRefactored(args, env, NilError, o).exitCode = ExitFailure

====
